---- MODULE Spec2Model ----
(***************************************************************************)
(* Chunk container header codec (FChunkHeader) and chunk part resolver     *)
(* (FileChunkPart.loadData) of epic-manifest-parser.                       *)
(*                                                                         *)
(* Bytes are numbers 0..255, buffers are sequences of bytes.  A 32-bit     *)
(* field that is only compared for equality (the magic) and the 64-bit and *)
(* 160-bit hash fields are kept as the little-endian byte words read from  *)
(* the archive; 32-bit fields that are compared by magnitude are numbers.  *)
(***************************************************************************)
EXTENDS Integers, Sequences, FiniteSets, TLC

(***************************************************************************)
(* Bounds of the model.                                                    *)
(***************************************************************************)
MaxVersion == 4
MaxPayload == 2
MaxOffset == 2
MaxSize == 2

(***************************************************************************)
(* Enumerations and constants.                                             *)
(***************************************************************************)
\* FChunkHeader.MAGIC = 0xB1FE3AA2, as the four bytes readUInt32 consumes.
MAGIC == <<162, 58, 254, 177>>

EChunkVersion_Original == 1
EChunkVersion_StoresShaAndHashType == 2
EChunkVersion_StoresDataSizeUncompressed == 3
EChunkVersion_Latest == 4

\* Fixed header size of each version: the widths of the wire format summed.
ChunkHeaderVersionSizes(v) ==
  IF v <= 0 THEN 0
  ELSE IF v = 1 THEN 41
  ELSE IF v = 2 THEN 62
  ELSE 66

EChunkStorageFlags_None == 0
EChunkStorageFlags_Compressed == 1
EChunkStorageFlags_Encrypted == 2

EChunkHashFlags_None == 0
EChunkHashFlags_RollingPoly64 == 1
EChunkHashFlags_Sha1 == 2

FSHAHash_SIZE == 20
DefaultDataSizeUncompressed == 1048576

\* The absent values null and undefined: one-element sequences that are no
\* byte buffer, so that they differ from every buffer, the empty one included.
Null == <<-1>>
Undefined == <<-2>>

(***************************************************************************)
(* Byte helpers.                                                           *)
(***************************************************************************)
Zeros(n) == [i \in 1..n |-> 0]

\* flag test  (x & f) == f  for a single-bit flag f
HasFlag(x, f) == (x \div f) % 2 = 1

\* little-endian encoding of a number below 2^31 in four bytes
LE32(n) == <<n % 256, (n \div 256) % 256, (n \div 65536) % 256, (n \div 16777216) % 256>>

(***************************************************************************)
(* FArchive: a buffer with a cursor.  The cursor is passed explicitly.     *)
(***************************************************************************)
\* ar.read(n): the n bytes at the cursor
FArchive_read(data, pos, n) == SubSeq(data, pos + 1, pos + n)

\* ar.readUInt32(): little-endian; the model's inputs keep the top byte < 128
FArchive_readUInt32(data, pos) ==
  data[pos + 1] + 256 * data[pos + 2] + 65536 * data[pos + 3] + 16777216 * data[pos + 4]

\* ar.readUInt8()
FArchive_readUInt8(data, pos) == data[pos + 1]

\* ar.readUInt64(): the 64-bit value, kept as its eight little-endian bytes
FArchive_readUInt64(data, pos) == SubSeq(data, pos + 1, pos + 8)

\* new FGuid(ar): four 32-bit words, kept as the sixteen bytes read
FGuid_read(data, pos) == SubSeq(data, pos + 1, pos + 16)

\* new FGuid(): the zero GUID
FGuid_zero == Zeros(16)

\* FGuid.isValid(): some word is non-zero
FGuid_isValid(g) == \E i \in 1..Len(g) : g[i] # 0

\* new FSHAHash(ar) / new FSHAHash()
FSHAHash_read(data, pos) == SubSeq(data, pos + 1, pos + FSHAHash_SIZE)
FSHAHash_zero == Zeros(FSHAHash_SIZE)

(***************************************************************************)
(* Hex formatting.  A hex string is the sequence of its digits 0..15, most *)
(* significant first.                                                      *)
(***************************************************************************)
RECURSIVE HexOfBytesBE(_)
HexOfBytesBE(bs) ==
  IF bs = <<>> THEN <<>>
  ELSE <<bs[1] \div 16, bs[1] % 16>> \o HexOfBytesBE(Tail(bs))

Reverse(s) == [i \in 1..Len(s) |-> s[Len(s) + 1 - i]]

\* toHex(n) of a 64-bit value held as little-endian bytes
toHex(w) == HexOfBytesBE(Reverse(w))

\* FSHAHash.toString() and digest("hex").toUpperCase(): the digest bytes in order
FSHAHash_toString(h) == HexOfBytesBE(h)

(***************************************************************************)
(* Hashes and compression (library functions, modelled by small           *)
(* deterministic stand-ins with the same signatures).                      *)
(***************************************************************************)
RECURSIVE PolyFold(_, _, _, _)
PolyFold(buf, acc, mul, modulus) ==
  IF buf = <<>> THEN acc
  ELSE PolyFold(Tail(buf), (acc * mul + buf[1] + 1) % modulus, mul, modulus)

\* FRollingHash.GetHashForDataSet(buf): a 64-bit value (little-endian bytes)
FRollingHash_GetHashForDataSet(buf) ==
  LET h == PolyFold(buf, 0, 31, 65536)
  IN  <<h % 256, h \div 256>> \o Zeros(6)

\* crypto.createHash("sha1").update(buf).digest(): twenty bytes
Sha1Digest(buf) ==
  LET h == PolyFold(buf, 7, 131, 65521)
  IN  <<h \div 256, h % 256>> \o Zeros(FSHAHash_SIZE - 2)

Sha1Hex(buf) == HexOfBytesBE(Sha1Digest(buf))

\* zlib.inflateSync(buf): the stream is a list of (count, byte) runs; a stream
\* that is not well formed makes inflateSync throw.
RECURSIVE InflateRuns(_)
InflateRuns(s) ==
  IF s = <<>> THEN <<>>
  ELSE [i \in 1..s[1] |-> s[2]] \o InflateRuns(SubSeq(s, 3, Len(s)))

InflateThrows(s) ==
  \/ Len(s) % 2 = 1
  \/ s = <<>>
  \/ \E i \in 1..Len(s) : i % 2 = 1 /\ s[i] = 0

zlib_inflateSync(s) == InflateRuns(s)

(***************************************************************************)
(* EChunkLoadResult                                                        *)
(***************************************************************************)
Success == "Success"
CorruptHeader == "CorruptHeader"
MissingHashInfo == "MissingHashInfo"
IncorrectFileSize == "IncorrectFileSize"
UnsupportedStorage == "UnsupportedStorage"
DecompressFailure == "DecompressFailure"
HashCheckFailed == "HashCheckFailed"
\* not a load result: zlib.inflateSync threw out of load
Threw == "Threw"

(***************************************************************************)
(* FChunkHeader: field initialisers and constructor.                       *)
(***************************************************************************)
\* the field initialisers; Guid and SHAHash have none
FieldInitialisers ==
  [ Version              |-> EChunkVersion_Latest,
    HeaderSize           |-> ChunkHeaderVersionSizes(EChunkVersion_Latest),
    Guid                 |-> Undefined,
    DataSizeCompressed   |-> 0,
    DataSizeUncompressed |-> DefaultDataSizeUncompressed,
    StoredAs             |-> EChunkStorageFlags_None,
    HashType             |-> EChunkHashFlags_RollingPoly64,
    RollingHash          |-> Zeros(8),
    SHAHash              |-> Undefined ]

\* the fixed block of every version.  A parse state is the header read so
\* far, the cursor, bSuccess and expectedBytes.
ReadOriginal(data, startPos, lazy) ==
  LET magic == FArchive_read(data, startPos, 4)
      h == [ FieldInitialisers EXCEPT
               !.Version = FArchive_readUInt32(data, startPos + 4),
               !.HeaderSize = FArchive_readUInt32(data, startPos + 8),
               !.DataSizeCompressed = FArchive_readUInt32(data, startPos + 12),
               !.Guid = FGuid_read(data, startPos + 16),
               !.RollingHash = IF lazy THEN @ ELSE FArchive_readUInt64(data, startPos + 32),
               !.StoredAs = FArchive_readUInt8(data, startPos + 40) ]
  IN  [ h |-> h, pos |-> startPos + 4 + 4 + 4 + 4 + 16 + 8 + 1,
        bSuccess |-> (magic = MAGIC),
        expectedBytes |-> ChunkHeaderVersionSizes(EChunkVersion_Original) ]

\* (mutant) the hash type is read before the SHA hash
ReadHashTypeThenSha(s, data, sizeLeft, lazy) ==
  IF s.bSuccess /\ s.h.Version >= EChunkVersion_StoresShaAndHashType
  THEN LET ok == sizeLeft >= ChunkHeaderVersionSizes(EChunkVersion_StoresShaAndHashType)
       IN  [ h |-> IF ok /\ ~lazy
                   THEN [ s.h EXCEPT
                            !.HashType = FArchive_readUInt8(data, s.pos),
                            !.SHAHash = FSHAHash_read(data, s.pos + 1) ]
                   ELSE s.h,
             pos |-> IF ok THEN s.pos + FSHAHash_SIZE + 1 ELSE s.pos,
             bSuccess |-> ok,
             expectedBytes |-> ChunkHeaderVersionSizes(EChunkVersion_StoresShaAndHashType) ]
  ELSE s

\* from version 2: SHA hash and hash type, skipped when lazy
ReadShaAndHashType(s, data, sizeLeft, lazy) ==
  IF s.bSuccess /\ s.h.Version >= EChunkVersion_StoresShaAndHashType
  THEN LET ok == sizeLeft >= ChunkHeaderVersionSizes(EChunkVersion_StoresShaAndHashType)
       IN  [ h |-> IF ok /\ ~lazy
                   THEN [ s.h EXCEPT
                            !.SHAHash = FSHAHash_read(data, s.pos),
                            !.HashType = FArchive_readUInt8(data, s.pos + FSHAHash_SIZE) ]
                   ELSE s.h,
             pos |-> IF ok THEN s.pos + FSHAHash_SIZE + 1 ELSE s.pos,
             bSuccess |-> ok,
             expectedBytes |-> ChunkHeaderVersionSizes(EChunkVersion_StoresShaAndHashType) ]
  ELSE s

\* from version 3: the uncompressed data size
ReadDataSizeUncompressed(s, data, sizeLeft) ==
  IF s.bSuccess /\ s.h.Version >= EChunkVersion_StoresDataSizeUncompressed
  THEN LET ok == sizeLeft >= ChunkHeaderVersionSizes(EChunkVersion_StoresDataSizeUncompressed)
       IN  [ h |-> IF ok
                   THEN [ s.h EXCEPT !.DataSizeUncompressed = FArchive_readUInt32(data, s.pos) ]
                   ELSE s.h,
             pos |-> IF ok THEN s.pos + 4 ELSE s.pos,
             bSuccess |-> ok,
             expectedBytes |-> ChunkHeaderVersionSizes(EChunkVersion_StoresDataSizeUncompressed) ]
  ELSE s

\* (mutant) the zeroing forgets the data size read from the input
ZeroedHeaderKeepsSize(h) ==
  [ Version              |-> EChunkVersion_Latest,
    HeaderSize           |-> ChunkHeaderVersionSizes(EChunkVersion_Latest),
    Guid                 |-> FGuid_zero,
    DataSizeCompressed   |-> h.DataSizeCompressed,
    DataSizeUncompressed |-> DefaultDataSizeUncompressed,
    StoredAs             |-> EChunkStorageFlags_None,
    HashType             |-> EChunkHashFlags_RollingPoly64,
    RollingHash          |-> Zeros(8),
    SHAHash              |-> FSHAHash_zero ]

\* the header after a serialization error: every field zeroed
ZeroedHeader(h) ==
  [ Version              |-> EChunkVersion_Latest,
    HeaderSize           |-> ChunkHeaderVersionSizes(EChunkVersion_Latest),
    Guid                 |-> FGuid_zero,
    DataSizeCompressed   |-> 0,
    DataSizeUncompressed |-> DefaultDataSizeUncompressed,
    StoredAs             |-> EChunkStorageFlags_None,
    HashType             |-> EChunkHashFlags_RollingPoly64,
    RollingHash          |-> Zeros(8),
    SHAHash              |-> FSHAHash_zero ]

\* the byte-count check, then the seek to the data or the zeroing.  The
\* result is the constructed header, the cursor it leaves, and (for the
\* properties only) bSuccess and the bytes consumed before the seek.
FinishHeader(s, startPos) ==
  LET consumed == s.pos - startPos
      bSuccess == s.bSuccess /\ consumed = s.expectedBytes
  IN  [ h |-> IF bSuccess THEN s.h ELSE ZeroedHeader(s.h),
        pos |-> IF bSuccess THEN startPos + s.h.HeaderSize ELSE s.pos,
        bSuccess |-> bSuccess,
        consumed |-> consumed ]

\* new FChunkHeader(ar, lazy) with the cursor at startPos
FChunkHeader_new(data, startPos, lazy) ==
  LET sizeLeft == Len(data) - startPos
      s0 == [ h |-> FieldInitialisers, pos |-> startPos, bSuccess |-> FALSE,
              expectedBytes |-> 0 ]
  IN  IF sizeLeft >= ChunkHeaderVersionSizes(EChunkVersion_Original)
      THEN FinishHeader(
             ReadDataSizeUncompressed(
               ReadShaAndHashType(ReadOriginal(data, startPos, lazy), data, sizeLeft, lazy),
               data, sizeLeft),
             startPos)
      ELSE FinishHeader(s0, startPos)

(***************************************************************************)
(* FChunkHeader.load                                                       *)
(***************************************************************************)
\* (mutant) the storage check is made before the size check
LoadPreCheckStorageFirst(h, sizeLeft, lazy) ==
  IF ~FGuid_isValid(h.Guid) THEN CorruptHeader
  ELSE IF ~lazy /\ h.HashType = EChunkHashFlags_None THEN MissingHashInfo
  ELSE IF HasFlag(h.StoredAs, EChunkStorageFlags_Encrypted) THEN UnsupportedStorage
  ELSE IF h.DataSizeCompressed > sizeLeft THEN IncorrectFileSize
  ELSE "Pass"

\* the four checks made before any payload byte is read; "Pass" when none hits
LoadPreCheck(h, sizeLeft, lazy) ==
  IF ~FGuid_isValid(h.Guid) THEN CorruptHeader
  ELSE IF ~lazy /\ h.HashType = EChunkHashFlags_None THEN MissingHashInfo
  ELSE IF h.DataSizeCompressed > sizeLeft THEN IncorrectFileSize
  ELSE IF HasFlag(h.StoredAs, EChunkStorageFlags_Encrypted) THEN UnsupportedStorage
  ELSE "Pass"

\* (mutant) the SHA check is nested in the rolling hash check
LoadVerifyNested(h, buf, lazy) ==
  IF lazy THEN Success
  ELSE IF HasFlag(h.HashType, EChunkHashFlags_RollingPoly64)
       THEN IF toHex(FRollingHash_GetHashForDataSet(buf)) # toHex(h.RollingHash)
            THEN IF /\ HasFlag(h.HashType, EChunkHashFlags_Sha1)
                    /\ Sha1Hex(buf) # FSHAHash_toString(h.SHAHash)
                 THEN HashCheckFailed
                 ELSE Success
            ELSE Success
       ELSE Success

\* (mutant) the verification runs in lazy mode too
LoadVerifyAlways(h, buf, lazy) ==
  IF /\ HasFlag(h.HashType, EChunkHashFlags_RollingPoly64)
     /\ toHex(FRollingHash_GetHashForDataSet(buf)) # toHex(h.RollingHash)
  THEN HashCheckFailed
  ELSE IF /\ HasFlag(h.HashType, EChunkHashFlags_Sha1)
          /\ Sha1Hex(buf) # FSHAHash_toString(h.SHAHash)
       THEN HashCheckFailed
  ELSE Success

\* the verification of the final payload
LoadVerify(h, buf, lazy) ==
  IF lazy THEN Success
  ELSE IF /\ HasFlag(h.HashType, EChunkHashFlags_RollingPoly64)
          /\ toHex(FRollingHash_GetHashForDataSet(buf)) # toHex(h.RollingHash)
       THEN HashCheckFailed
  ELSE IF /\ HasFlag(h.HashType, EChunkHashFlags_Sha1)
          /\ Sha1Hex(buf) # FSHAHash_toString(h.SHAHash)
       THEN HashCheckFailed
  ELSE Success

\* the payload after decompression: a status and the buffer
LoadDecompress(h, raw) ==
  IF HasFlag(h.StoredAs, EChunkStorageFlags_Compressed)
  THEN IF InflateThrows(raw) THEN [ status |-> Threw, buf |-> Null ]
       ELSE LET data == zlib_inflateSync(raw)
            IN  IF Len(data) # h.DataSizeUncompressed
                THEN [ status |-> DecompressFailure, buf |-> Null ]
                ELSE [ status |-> "Pass", buf |-> data ]
  ELSE [ status |-> "Pass", buf |-> raw ]

\* header.load(ar, lazy) with the cursor at pos: the status, the buffer
\* (Null when there is none) and the cursor afterwards
FChunkHeader_load(h, data, pos, lazy) ==
  LET sizeLeft == Len(data) - pos
      pre == LoadPreCheck(h, sizeLeft, lazy)
  IN  IF pre # "Pass" THEN [ status |-> pre, buf |-> Null, pos |-> pos ]
      ELSE LET raw == FArchive_read(data, pos, h.DataSizeCompressed)
               d == LoadDecompress(h, raw)
               end == pos + h.DataSizeCompressed
           IN  IF d.status # "Pass" THEN [ status |-> d.status, buf |-> Null, pos |-> end ]
               ELSE LET v == LoadVerify(h, d.buf, lazy)
                    IN  [ status |-> v,
                          buf |-> IF v = Success THEN d.buf ELSE Null,
                          pos |-> end ]

(***************************************************************************)
(* The wire format of a container, used to build the inputs:               *)
(* MAGIC | Version | HeaderSize | CompressedDataSize | Guid | RollingHash  *)
(* | StorageFlags | [ShaDigest HashTypeFlags] | [UncompressedDataSize] |   *)
(* payload.                                                                *)
(***************************************************************************)
EncodeHeader(f) ==
  f.magic \o LE32(f.Version) \o LE32(f.HeaderSize) \o LE32(f.DataSizeCompressed)
    \o f.Guid \o f.RollingHash \o <<f.StoredAs>>
    \o (IF f.Version >= EChunkVersion_StoresShaAndHashType
        THEN f.SHAHash \o <<f.HashType>> ELSE <<>>)
    \o (IF f.Version >= EChunkVersion_StoresDataSizeUncompressed
        THEN LE32(f.DataSizeUncompressed) ELSE <<>>)

\* header, padding up to HeaderSize, stored payload; the last cut bytes missing
Container(f, stored, cut) ==
  LET head == EncodeHeader(f)
      pad == IF f.HeaderSize > Len(head) THEN Zeros(f.HeaderSize - Len(head)) ELSE <<>>
      full == head \o pad \o stored
  IN  SubSeq(full, 1, IF cut >= Len(full) THEN 0 ELSE Len(full) - cut)

(***************************************************************************)
(* Inputs.                                                                 *)
(***************************************************************************)
PayloadBytes == {1, 2}
RECURSIVE SeqsUpTo(_, _)
SeqsUpTo(S, n) ==
  IF n = 0 THEN {<<>>}
  ELSE LET shorter == SeqsUpTo(S, n - 1)
       IN  shorter \cup {Append(q, x) : q \in {r \in shorter : Len(r) = n - 1}, x \in S}

\* the stored payloads: as they are when not compressed, run lists when compressed
Payloads == SeqsUpTo(PayloadBytes, MaxPayload)

BadMagic == <<163, 58, 254, 177>>
SomeGuid == [i \in 1..16 |-> IF i = 5 THEN 9 ELSE 0]

\* the payload a container with these flags decodes to
FinalPayload(storedAs, stored) ==
  IF HasFlag(storedAs, EChunkStorageFlags_Compressed) /\ ~InflateThrows(stored)
  THEN zlib_inflateSync(stored) ELSE stored

\* a value that differs from w in its first byte
Other(w) == [w EXCEPT ![1] = (@ + 1) % 256]

EncodedSize(v) ==
  ChunkHeaderVersionSizes(IF v < EChunkVersion_Original THEN EChunkVersion_Original ELSE v)

Defects == {"none", "magic", "headerSize", "sizeCompressed", "sizeUncompressed",
            "cut1", "cutHeader", "cutVersion"}

\* the header fields of a container with one defect and the given hashes
Fields(v, guid, storedAs, hashType, stored, rhOk, shaOk, defect) ==
  LET final == FinalPayload(storedAs, stored)
      rh == FRollingHash_GetHashForDataSet(final)
      sha == Sha1Digest(final)
  IN  [ magic |-> IF defect = "magic" THEN BadMagic ELSE MAGIC,
        Version |-> v,
        HeaderSize |-> EncodedSize(v) + (IF defect = "headerSize" THEN 1 ELSE 0),
        DataSizeCompressed |-> Len(stored) + (IF defect = "sizeCompressed" THEN 1 ELSE 0),
        Guid |-> guid,
        RollingHash |-> IF rhOk THEN rh ELSE Other(rh),
        StoredAs |-> storedAs,
        SHAHash |-> IF shaOk THEN sha ELSE Other(sha),
        HashType |-> hashType,
        DataSizeUncompressed |-> Len(final) + (IF defect = "sizeUncompressed" THEN 1 ELSE 0) ]

Cut(f, stored, defect) ==
  IF defect = "cut1" THEN 1
  ELSE IF defect = "cutHeader" THEN Len(stored) + EncodedSize(f.Version) - 40
  ELSE IF defect = "cutVersion" THEN Len(stored) + 1
  ELSE 0

\* one decode-and-load run of the codec, before the constructor is called
NewRun(f, stored, defect, lazy) ==
  [ f |-> f, stored |-> stored, defect |-> defect, lazy |-> lazy,
    data |-> Container(f, stored, Cut(f, stored, defect)),
    pos |-> 0,
    pc |-> "start",
    header |-> [ h |-> FieldInitialisers, pos |-> 0, bSuccess |-> FALSE, consumed |-> 0 ],
    result |-> [ status |-> "none", buf |-> Null, pos |-> 0 ] ]

CodecRuns ==
  { NewRun(Fields(v, guid, storedAs, hashType, stored, rhOk, shaOk, defect),
           stored, defect, lazy) :
      v \in 0..MaxVersion, guid \in {FGuid_zero, SomeGuid}, storedAs \in 0..3,
      hashType \in 0..3, stored \in Payloads, rhOk \in BOOLEAN, shaOk \in BOOLEAN,
      defect \in Defects, lazy \in BOOLEAN }

(***************************************************************************)
(* FileChunkPart.loadData: the pure parts.                                 *)
(***************************************************************************)
\* the verification of the bytes read from the cache file: "ok", or the
\* check that failed
CacheVerify(data, r) ==
  IF r.lazy THEN "ok"
  ELSE IF toHex(FRollingHash_GetHashForDataSet(data)) # r.Hash THEN "hash"
  ELSE IF Sha1Hex(data) # r.Sha THEN "sha"
  ELSE "ok"

\* (mutant) a cache entry that fails the verification is fetched again
AfterCacheVerifyRefetch(v) == IF v = "ok" THEN "slice" ELSE "request"

\* where loadData goes after the verification of the cached bytes
AfterCacheVerify(v) == IF v = "ok" THEN "slice" ELSE "error"

\* (mutant) a failed hash check does not stop loadData
LoadFailsExceptHash(status) == status \notin {Success, HashCheckFailed}

\* loadData throws on every load result but Success
LoadFails(status) == status # Success

\* the response body handed to the codec: the error thrown, if any, the load
\* result and the payload
NetDecode(content, lazy) ==
  IF Len(content) < 4 THEN [ error |-> "throw", status |-> "none", buf |-> Null ]
  ELSE IF FArchive_read(content, 0, 4) # MAGIC
       THEN [ error |-> "magic", status |-> "none", buf |-> Null ]
  ELSE LET hd == FChunkHeader_new(content, 0, lazy)
           r == FChunkHeader_load(hd.h, content, hd.pos, lazy)
       IN  [ error |-> IF r.status = Threw THEN "throw"
                       ELSE IF LoadFails(r.status) THEN "load" ELSE "",
             status |-> r.status, buf |-> r.buf ]

\* (mutant) the window is copied from the start of the payload
SliceFromStart(data, offset, size, strict) ==
  [ error |-> "", result |-> [i \in 1..size |-> IF i <= Len(data) THEN data[i] ELSE 0] ]

\* Buffer.alloc(Size) and data.copy(result, 0, Offset, Offset + Size).  copy
\* throws when Offset lies beyond the data; a copy of no bytes is made before
\* that check or after it (strict), depending on the runtime.
Slice(data, offset, size, strict) ==
  IF offset > Len(data) /\ (strict \/ size > 0)
  THEN [ error |-> "range", result |-> Null ]
  ELSE [ error |-> "",
         result |-> [i \in 1..size |-> IF offset + i <= Len(data) THEN data[offset + i] ELSE 0] ]

(***************************************************************************)
(* Inputs of the resolver.                                                 *)
(***************************************************************************)
\* payloads whose bytes all differ
ResolverPayloads == {p \in SeqsUpTo(1..MaxPayload, MaxPayload) : \A i \in 1..Len(p) : p[i] = i}

\* the run list that inflates to p
RECURSIVE Deflate(_)
Deflate(p) == IF p = <<>> THEN <<>> ELSE <<1, p[1]>> \o Deflate(Tail(p))

GoodFields(p, storedAs, stored, rhOk) ==
  Fields(EChunkVersion_StoresDataSizeUncompressed, SomeGuid, storedAs, 3, stored, rhOk,
         TRUE, "none")

\* the responses of the chunk store: the status, the body and the payload the
\* body holds
Remotes ==
  { [ status |-> 200, payload |-> p,
      content |-> Container(GoodFields(p, 0, p, TRUE), p, 0) ] : p \in ResolverPayloads }
  \cup
  { [ status |-> 200, payload |-> p,
      content |-> Container(GoodFields(p, 1, Deflate(p), TRUE), Deflate(p), 0) ] :
        p \in ResolverPayloads \ {<<>>} }
  \cup
  { [ status |-> 200, payload |-> <<1>>,
      content |-> Container(GoodFields(<<1>>, 0, <<1>>, FALSE), <<1>>, 0) ],
    [ status |-> 200, payload |-> <<1>>,
      content |-> Container([GoodFields(<<1>>, 0, <<1>>, TRUE) EXCEPT !.magic = BadMagic],
                            <<1>>, 0) ],
    [ status |-> 200, payload |-> <<>>, content |-> <<162, 58>> ],
    [ status |-> 404, payload |-> <<>>, content |-> <<>> ] }

\* the chunk references and options: the manifest's hashes are those of the
\* payload of the store ("match") or differ in the rolling hash or the SHA
Refs(rem) ==
  { [ Offset |-> off, Size |-> size, lazy |-> lazy,
      Hash |-> toHex(IF kind = "hash" THEN Other(FRollingHash_GetHashForDataSet(rem.payload))
                     ELSE FRollingHash_GetHashForDataSet(rem.payload)),
      Sha |-> IF lazy THEN Null
              ELSE HexOfBytesBE(IF kind = "sha" THEN Other(Sha1Digest(rem.payload))
                                ELSE Sha1Digest(rem.payload)),
      kind |-> kind,
      cacheDirectory |-> config # "noCache",
      chunkBaseUri |-> config # "noUri" ] :
      off \in 0..MaxOffset, size \in 0..MaxSize, lazy \in BOOLEAN,
      kind \in {"match", "hash", "sha"}, config \in {"both", "noCache", "noUri"} }

Calls == {1, 2}

NewCall ==
  [ pc |-> "init", path |-> "none", data |-> <<>>, reads |-> 0, requests |-> 0,
    loadStatus |-> "none", wrote |-> Null, result |-> Null, error |-> "",
    startedAfter |-> {} ]

(***************************************************************************)
(* State.                                                                  *)
(***************************************************************************)
VARIABLES
  arch,         \* the codec runs: archive, cursor, header and load result of each
  ref,          \* the chunk reference and the options of the calls
  remote,       \* what the chunk store answers for the reference's URL
  cache,        \* the content of the cache file, Null when there is none
  calls,        \* the loadData calls
  sameProcess,  \* the calls run on one event loop
  running,      \* the call whose synchronous section is running, 0 when none
  copyStrict    \* the runtime's copy throws before it returns on an empty copy

vars == <<arch, ref, remote, cache, calls, sameProcess, running, copyStrict>>
resolverVars == <<ref, remote, cache, calls, sameProcess, running, copyStrict>>

(***************************************************************************)
(* The codec alone.                                                        *)
(***************************************************************************)
\* new FChunkHeader(ar, lazy)
Construct(i) ==
  /\ arch[i].pc = "start"
  /\ LET hd == FChunkHeader_new(arch[i].data, arch[i].pos, arch[i].lazy)
     IN  arch' = [arch EXCEPT ![i].header = hd, ![i].pos = hd.pos, ![i].pc = "constructed"]
  /\ UNCHANGED resolverVars

\* header.load(ar, lazy)
Load(i) ==
  /\ arch[i].pc = "constructed"
  /\ LET r == FChunkHeader_load(arch[i].header.h, arch[i].data, arch[i].pos, arch[i].lazy)
     IN  arch' = [arch EXCEPT ![i].result = r, ![i].pos = r.pos, ![i].pc = "loaded"]
  /\ UNCHANGED resolverVars

NoResolver ==
  /\ remote = [ status |-> 404, payload |-> <<>>, content |-> <<>> ]
  /\ ref = [ Offset |-> 0, Size |-> 0, lazy |-> TRUE, Hash |-> <<>>, Sha |-> Null,
             kind |-> "match", cacheDirectory |-> FALSE, chunkBaseUri |-> FALSE ]
  /\ cache = Null
  /\ calls = [c \in Calls |-> [NewCall EXCEPT !.pc = "done"]]
  /\ sameProcess = TRUE
  /\ running = 0
  /\ copyStrict = TRUE

CodecInit == (\E r \in CodecRuns : arch = <<r>>) /\ NoResolver

CodecNext == \E i \in DOMAIN arch : Construct(i) \/ Load(i)

CodecSpec == CodecInit /\ [][CodecNext]_vars

\* two containers that differ only in the hash-bearing header bytes, each
\* decoded and loaded with the same lazy flag
PairRuns ==
  { <<NewRun(Fields(v, SomeGuid, storedAs, 3, stored, TRUE, TRUE, defect),
             stored, defect, lazy),
      NewRun(Fields(v, SomeGuid, storedAs, hashType2, stored, rhOk, shaOk, defect),
             stored, defect, lazy)>> :
      v \in 1..MaxVersion, storedAs \in {0, 1}, stored \in Payloads,
      defect \in {"none", "sizeCompressed"}, lazy \in BOOLEAN,
      hashType2 \in 0..3, rhOk \in BOOLEAN, shaOk \in BOOLEAN }

PairInit == arch \in PairRuns /\ NoResolver

PairSpec == PairInit /\ [][CodecNext]_vars

(***************************************************************************)
(* The resolver: two loadData calls for one chunk reference.               *)
(***************************************************************************)
\* the call may take a step: on one event loop a synchronous section runs to
\* its end before another call continues
MayRun(c) == ~sameProcess \/ running \in {0, c}

\* the call holds the event loop until it awaits or ends
Holds(c, pc) == IF sameProcess /\ pc \notin {"await", "done", "error"} THEN c ELSE 0

\* the existence check of the cache file
Start(c) ==
  /\ calls[c].pc = "init" /\ MayRun(c)
  /\ LET hit == ref.cacheDirectory /\ cache # Null
         pc == IF hit THEN "read" ELSE "request"
     IN  /\ calls' = [calls EXCEPT ![c].pc = pc,
                        ![c].startedAfter = {d \in Calls : calls[d].pc \in {"done", "error"}}]
         /\ running' = Holds(c, pc)
  /\ UNCHANGED <<arch, ref, remote, cache, sameProcess, copyStrict>>

\* readFileSync and the verification of the cached bytes
ReadCache(c) ==
  /\ calls[c].pc = "read" /\ MayRun(c)
  /\ LET data == cache
         v == CacheVerify(data, ref)
         pc == AfterCacheVerify(v)
     IN  /\ calls' = [calls EXCEPT ![c].pc = pc, ![c].path = "cache", ![c].data = data,
                        ![c].reads = @ + 1,
                        ![c].error = IF pc = "error" THEN "corrupted " \o v ELSE ""]
         /\ running' = Holds(c, pc)
  /\ UNCHANGED <<arch, ref, remote, cache, sameProcess, copyStrict>>

\* the base URI check and the request
Request(c) ==
  /\ calls[c].pc = "request" /\ MayRun(c)
  /\ LET pc == IF ref.chunkBaseUri THEN "await" ELSE "error"
     IN  /\ calls' = [calls EXCEPT ![c].pc = pc,
                        ![c].path = IF pc = "await" THEN "net" ELSE @,
                        ![c].requests = IF pc = "await" THEN @ + 1 ELSE @,
                        ![c].error = IF pc = "error" THEN "config" ELSE ""]
         /\ running' = Holds(c, pc)
  /\ UNCHANGED <<arch, ref, remote, cache, sameProcess, copyStrict>>

\* the response arrives: status check, magic check, decode and load
Respond(c) ==
  /\ calls[c].pc = "await" /\ MayRun(c)
  /\ IF remote.status # 200
     THEN /\ calls' = [calls EXCEPT ![c].pc = "error", ![c].error = "status"]
          /\ running' = 0
     ELSE LET d == NetDecode(remote.content, ref.lazy)
              pc == IF d.error # "" THEN "error"
                    ELSE IF ref.cacheDirectory THEN "write" ELSE "slice"
          IN  /\ calls' = [calls EXCEPT ![c].pc = pc, ![c].error = d.error,
                             ![c].loadStatus = d.status,
                             ![c].data = IF d.error = "" THEN d.buf ELSE @]
              /\ running' = Holds(c, pc)
  /\ UNCHANGED <<arch, ref, remote, cache, sameProcess, copyStrict>>

\* writeFileSync opens the file, which creates or empties it
WriteOpen(c) ==
  /\ calls[c].pc = "write" /\ MayRun(c)
  /\ cache' = <<>>
  /\ calls' = [calls EXCEPT ![c].pc = "writing"]
  /\ running' = Holds(c, "writing")
  /\ UNCHANGED <<arch, ref, remote, sameProcess, copyStrict>>

\* writeFileSync writes the data and returns
WriteData(c) ==
  /\ calls[c].pc = "writing" /\ MayRun(c)
  /\ cache' = calls[c].data
  /\ calls' = [calls EXCEPT ![c].pc = "slice", ![c].wrote = calls[c].data]
  /\ running' = Holds(c, "slice")
  /\ UNCHANGED <<arch, ref, remote, sameProcess, copyStrict>>

\* the requested window is copied out and returned
Return(c) ==
  /\ calls[c].pc = "slice" /\ MayRun(c)
  /\ LET s == Slice(calls[c].data, ref.Offset, ref.Size, copyStrict)
     IN  calls' = [calls EXCEPT ![c].pc = IF s.error = "" THEN "done" ELSE "error",
                     ![c].error = s.error, ![c].result = s.result]
  /\ running' = 0
  /\ UNCHANGED <<arch, ref, remote, cache, sameProcess, copyStrict>>

Init ==
  /\ arch = <<>>
  /\ remote \in Remotes
  /\ ref \in Refs(remote)
  /\ cache \in {Null, <<9>>}
  /\ calls = [c \in Calls |-> NewCall]
  /\ sameProcess \in BOOLEAN
  /\ running = 0
  /\ copyStrict \in (IF ref.Size = 0 /\ ref.Offset > 0 THEN BOOLEAN ELSE {TRUE})

Next ==
  \E c \in Calls :
    \/ Start(c)
    \/ ReadCache(c)
    \/ Request(c)
    \/ Respond(c)
    \/ WriteOpen(c)
    \/ WriteData(c)
    \/ Return(c)

Spec == Init /\ [][Next]_vars

(***************************************************************************)
(* Properties of the codec (CodecSpec).                                    *)
(***************************************************************************)
Runs == {arch[i] : i \in DOMAIN arch}

\* the input makes the decode fail: too short for version 1, wrong magic, or
\* too short for the declared version
DecodeFailsOn(r) ==
  \/ Len(r.data) < ChunkHeaderVersionSizes(EChunkVersion_Original)
  \/ SubSeq(r.data, 1, 4) # MAGIC
  \/ Len(r.data) < EncodedSize(r.f.Version)

\* C6: when the constructor's decode fails, every field holds its default
\* afterwards and none holds a value read from the input.
C6_FailedDecodeZeroesHeader ==
  \A r \in Runs :
    (r.pc # "start" /\ (DecodeFailsOn(r) \/ ~r.header.bSuccess)) =>
      /\ ~r.header.bSuccess
      /\ r.header.h.Version = EChunkVersion_Latest
      /\ r.header.h.HeaderSize = ChunkHeaderVersionSizes(EChunkVersion_Latest)
      /\ r.header.h.Guid = Zeros(16)
      /\ r.header.h.DataSizeCompressed = 0
      /\ r.header.h.DataSizeUncompressed = 1048576
      /\ r.header.h.StoredAs = EChunkStorageFlags_None
      /\ r.header.h.HashType = EChunkHashFlags_RollingPoly64
      /\ r.header.h.RollingHash = Zeros(8)
      /\ r.header.h.SHAHash = Zeros(20)

\* a decode that failed on the magic after reading non-default field values
C6_Witness ==
  \E r \in Runs :
    /\ r.pc = "constructed" /\ r.defect = "magic" /\ ~r.lazy
    /\ r.f.Version = 3 /\ r.f.DataSizeCompressed > 0 /\ r.f.Guid # Zeros(16)
    /\ r.f.StoredAs = 3 /\ r.f.HashType = 2
    /\ ~r.header.bSuccess /\ r.header.h.DataSizeCompressed = 0

\* C7: with verification enabled, decoding the encoding of a header of
\* version 1.. succeeds, returns the encoded field values (the defaults for
\* the fields the version lacks) and consumes the version's fixed byte count.
C7_RoundTrip ==
  \A r \in Runs :
    ( /\ r.pc # "start" /\ ~r.lazy
      /\ r.f.Version \in 1..MaxVersion
      /\ r.f.magic = MAGIC
      /\ Len(r.data) >= Len(EncodeHeader(r.f)) ) =>
      /\ r.header.bSuccess
      /\ r.header.h.Version = r.f.Version
      /\ r.header.h.HeaderSize = r.f.HeaderSize
      /\ r.header.h.DataSizeCompressed = r.f.DataSizeCompressed
      /\ r.header.h.Guid = r.f.Guid
      /\ r.header.h.RollingHash = r.f.RollingHash
      /\ r.header.h.StoredAs = r.f.StoredAs
      /\ r.header.h.SHAHash = (IF r.f.Version >= 2 THEN r.f.SHAHash ELSE Undefined)
      /\ r.header.h.HashType =
           (IF r.f.Version >= 2 THEN r.f.HashType ELSE EChunkHashFlags_RollingPoly64)
      /\ r.header.h.DataSizeUncompressed =
           (IF r.f.Version >= 3 THEN r.f.DataSizeUncompressed ELSE 1048576)
      /\ r.header.consumed = ChunkHeaderVersionSizes(r.f.Version)
      /\ r.header.pos = r.f.HeaderSize

\* a version 2 header with SHA and both hash flags decoded back
C7_Witness ==
  \E r \in Runs :
    /\ r.pc = "constructed" /\ ~r.lazy /\ r.defect = "none"
    /\ r.f.Version = 2 /\ r.f.HashType = 3 /\ r.f.StoredAs = 1
    /\ r.header.bSuccess /\ r.header.consumed = 62
    /\ r.header.h.SHAHash = r.f.SHAHash /\ r.header.h.HashType = 3
    /\ r.header.h.DataSizeUncompressed = 1048576

\* C8: load returns the first matching result of CorruptHeader,
\* MissingHashInfo, IncorrectFileSize, UnsupportedStorage, in this order, and
\* then leaves the cursor where it was and returns no payload.
C8_LoadCheckOrder ==
  \A r \in Runs :
    r.pc = "loaded" =>
      LET h == r.header.h
          sizeLeft == Len(r.data) - r.header.pos
          early == {CorruptHeader, MissingHashInfo, IncorrectFileSize, UnsupportedStorage}
          first ==
            IF h.Guid = Zeros(16) THEN CorruptHeader
            ELSE IF ~r.lazy /\ h.HashType = 0 THEN MissingHashInfo
            ELSE IF h.DataSizeCompressed > sizeLeft THEN IncorrectFileSize
            ELSE IF h.StoredAs \in {2, 3} THEN UnsupportedStorage
            ELSE "none"
      IN  /\ first # "none" => r.result.status = first
          /\ first = "none" => r.result.status \notin early
          /\ r.result.status \in early =>
                r.result.pos = r.header.pos /\ r.result.buf = Null

\* an encrypted container whose declared size exceeds the bytes that remain
C8_Witness ==
  \E r \in Runs :
    /\ r.pc = "loaded" /\ r.header.bSuccess
    /\ r.header.h.Guid # Zeros(16)
    /\ r.header.h.StoredAs = 2
    /\ r.header.h.DataSizeCompressed > Len(r.data) - r.header.pos
    /\ r.result.status = IncorrectFileSize
    /\ r.result.pos = r.header.pos

\* the payload load verifies: the bytes read, decompressed if applicable
VerifiedPayload(r) ==
  LoadDecompress(r.header.h,
                 FArchive_read(r.data, r.header.pos, r.header.h.DataSizeCompressed)).buf

\* the run decoded its header and passed every check before the verification
ReachedVerify(r) ==
  /\ r.pc = "loaded" /\ ~r.lazy /\ r.header.bSuccess
  /\ r.result.status \in {Success, HashCheckFailed}

RollingDiffers(r) ==
  FRollingHash_GetHashForDataSet(VerifiedPayload(r)) # r.header.h.RollingHash

ShaDiffers(r) ==
  Sha1Digest(VerifiedPayload(r)) # r.header.h.SHAHash

\* C5 as stated: with verification enabled, a payload whose rolling hash or
\* SHA-1 digest differs from the stored value yields HashCheckFailed.
C5_Original ==
  \A r \in Runs :
    (ReachedVerify(r) /\ r.header.h.Version >= 2 /\ (RollingDiffers(r) \/ ShaDiffers(r))) =>
      r.result.status = HashCheckFailed /\ r.result.buf = Null

\* C5 (amended): with verification enabled, a payload whose rolling hash
\* differs from the stored one while the RollingPoly64 flag is set, or whose
\* SHA-1 digest differs from the stored one while the Sha1 flag is set,
\* yields HashCheckFailed and no payload, also when only one of them differs.
C5_FlaggedHashMismatchFails ==
  \A r \in Runs :
    ( /\ ReachedVerify(r)
      /\ \/ (r.header.h.HashType \in {1, 3} /\ RollingDiffers(r))
         \/ (r.header.h.HashType \in {2, 3} /\ ShaDiffers(r)) ) =>
      r.result.status = HashCheckFailed /\ r.result.buf = Null

\* both flags set, the rolling hash matches and only the digest differs
C5_Witness ==
  \E r \in Runs :
    /\ ReachedVerify(r) /\ r.header.h.HashType = 3
    /\ ~RollingDiffers(r) /\ ShaDiffers(r)
    /\ Len(VerifiedPayload(r)) > 0
    /\ r.result.status = HashCheckFailed

(***************************************************************************)
(* Properties of the codec on two containers (PairSpec).                   *)
(***************************************************************************)
\* the positions of RollingHash, ShaDigest and HashTypeFlags in a container
HashBytePositions == (33..40) \cup (42..62)

DifferOnlyInHashBytes(d1, d2) ==
  /\ Len(d1) = Len(d2)
  /\ \A i \in 1..Len(d1) : d1[i] # d2[i] => i \in HashBytePositions

\* C9: with verification disabled, two containers that differ only in the
\* hash-bearing header bytes give the same load result and payload, the
\* decoded RollingHash and HashType stay at their defaults, and load returns
\* neither MissingHashInfo nor HashCheckFailed.
C9_LazyIgnoresHashBytes ==
  (/\ Len(arch) = 2
   /\ arch[1].lazy /\ arch[2].lazy
   /\ DifferOnlyInHashBytes(arch[1].data, arch[2].data)) =>
     /\ \A i \in 1..2 :
          /\ arch[i].pc # "start" =>
                /\ arch[i].header.h.RollingHash = Zeros(8)
                /\ arch[i].header.h.HashType = EChunkHashFlags_RollingPoly64
          /\ arch[i].result.status \notin {MissingHashInfo, HashCheckFailed}
     /\ (arch[1].pc = "constructed" /\ arch[2].pc = "constructed") =>
          arch[1].header = arch[2].header
     /\ (arch[1].pc = "loaded" /\ arch[2].pc = "loaded") =>
          /\ arch[1].result.status = arch[2].result.status
          /\ arch[1].result.buf = arch[2].result.buf

\* a container with a wrong digest and no hash type is accepted like the one
\* with the right digest
C9_Witness ==
  /\ Len(arch) = 2 /\ arch[1].lazy /\ arch[2].lazy
  /\ arch[1].pc = "loaded" /\ arch[2].pc = "loaded"
  /\ arch[1].f.Version >= 2
  /\ arch[1].f.HashType = 3 /\ arch[2].f.HashType = 0
  /\ arch[1].f.SHAHash # arch[2].f.SHAHash
  /\ arch[1].f.RollingHash # arch[2].f.RollingHash
  /\ arch[1].data # arch[2].data
  /\ arch[2].result.status = Success /\ Len(arch[2].result.buf) = 2
  /\ arch[1].result = arch[2].result

(***************************************************************************)
(* Properties of the resolver (Spec).                                      *)
(***************************************************************************)
Finished(c) == calls[c].pc \in {"done", "error"}

\* C1 as stated: after a call that missed the cache, fetched, decoded with
\* Success, wrote the cache file and returned R1, a second call on the same
\* reference hits the cache, completes without error and returns R1.
C1_Original ==
  \A a \in Calls, b \in Calls :
    ( /\ a # b
      /\ calls[a].pc = "done" /\ calls[a].path = "net"
      /\ calls[a].loadStatus = Success /\ calls[a].wrote # Null
      /\ a \in calls[b].startedAfter
      /\ Finished(b) ) =>
      /\ calls[b].path = "cache"
      /\ calls[b].pc = "done"
      /\ calls[b].result = calls[a].result

\* C2: a load result other than Success ends loadData in an error, with no
\* cache file written and no bytes returned; the cache file is written only
\* after load returned Success, with exactly the payload load returned.
C2_FailedLoadNeverCached ==
  [][ /\ \A c \in Calls :
          /\ calls'[c].loadStatus \notin {"none", Success} =>
                /\ calls'[c].pc = "error"
                /\ calls'[c].result = Null
                /\ calls'[c].wrote = Null
          /\ calls'[c].pc \in {"write", "writing"} => calls'[c].loadStatus = Success
          /\ calls'[c].wrote # Null =>
                /\ calls'[c].loadStatus = Success
                /\ calls'[c].wrote = FChunkHeader_load(
                                       FChunkHeader_new(remote.content, 0, ref.lazy).h,
                                       remote.content,
                                       FChunkHeader_new(remote.content, 0, ref.lazy).pos,
                                       ref.lazy).buf
      /\ cache' # cache =>
            \E c \in Calls :
              /\ calls[c].loadStatus = Success
              /\ \/ calls[c].pc = "write" /\ cache' = <<>>
                 \/ calls[c].pc = "writing" /\ cache' = calls'[c].wrote
    ]_vars

\* a call whose container failed the hash check ended in an error and left
\* the configured cache without a file
C2_Witness ==
  \E c \in Calls :
    /\ calls[c].loadStatus = HashCheckFailed
    /\ calls[c].pc = "error" /\ calls[c].error = "load"
    /\ ref.cacheDirectory /\ cache = Null
    /\ calls[c].result = Null

\* the cached bytes fail the verification of the reference
CachedBytesMismatch(c) ==
  /\ calls[c].reads = 1 /\ ~ref.lazy
  /\ \/ toHex(FRollingHash_GetHashForDataSet(calls[c].data)) # ref.Hash
     \/ Sha1Hex(calls[c].data) # ref.Sha

\* C3: a call reads the cache file or issues one request, never both; a
\* call that found the cache file issues no request, also when the cached
\* bytes fail the verification, and then ends in a 'corrupted' error.
C3_CacheReadExcludesRequest ==
  \A c \in Calls :
    /\ calls[c].reads + calls[c].requests <= 1
    /\ calls[c].pc = "read" \/ calls[c].path = "cache" => calls[c].requests = 0
    /\ calls[c].path = "net" => calls[c].reads = 0
    /\ CachedBytesMismatch(c) =>
          /\ calls[c].pc = "error"
          /\ calls[c].error \in {"corrupted hash", "corrupted sha"}
          /\ calls[c].requests = 0

\* a call read a cache file whose rolling hash is right and whose digest is
\* wrong, and ended in the error without a request
C3_Witness ==
  \E c \in Calls :
    /\ calls[c].reads = 1 /\ calls[c].requests = 0
    /\ ~ref.lazy /\ ref.chunkBaseUri
    /\ toHex(FRollingHash_GetHashForDataSet(calls[c].data)) = ref.Hash
    /\ calls[c].error = "corrupted sha"
    /\ calls[c].pc = "error"

\* the store answers with a container that decodes and loads with Success,
\* the manifest's hashes are those of its payload, and the window lies in it
ConsistentInputs ==
  /\ remote.status = 200
  /\ NetDecode(remote.content, ref.lazy).error = ""
  /\ ref.kind = "match"
  /\ ref.cacheDirectory /\ ref.chunkBaseUri
  /\ ref.Offset + ref.Size <= Len(remote.payload)

\* C4 as stated: two calls for the same GUID, interleaved in any way, each
\* return the bytes they return when run alone, none ends in an error caused
\* by the other, and the cache file finally holds the full payload.  (Here
\* with consistent inputs and no cache file at the start, where a call run
\* alone returns the window of the payload.)
C4_Original ==
  ( /\ ConsistentInputs
    /\ \E c \in Calls : calls[c].path = "net"
    /\ \A c \in Calls : Finished(c) ) =>
    /\ \A c \in Calls :
         /\ calls[c].pc = "done"
         /\ calls[c].result = SubSeq(remote.payload, ref.Offset + 1, ref.Offset + ref.Size)
    /\ cache = remote.payload

\* C10 as stated: a call that completes without error returns exactly Size
\* bytes, byte i being byte Offset + i of the full payload.  (Here for the
\* calls whose full payload is the payload of the store's container.)
C10_Original ==
  \A c \in Calls :
    (calls[c].pc = "done" /\ calls[c].data = remote.payload) =>
      /\ Len(calls[c].result) = ref.Size
      /\ \A i \in 1..ref.Size :
           /\ ref.Offset + i <= Len(calls[c].data)
           /\ calls[c].result[i] = calls[c].data[ref.Offset + i]

====
